---------------------------- MODULE Spec2Model ----------------------------
(***************************************************************************)
(* Digital products storefront (src/main.py): the checkout-to-download     *)
(* token lifecycle over the product and order collections of the document  *)
(* store, and the per-IP request throttle in front of every handler.       *)
(*                                                                         *)
(* Texts are modelled structurally.  A product id text is a record         *)
(* [hex, n]: hex says whether the text is a well-formed ObjectId, n which  *)
(* ObjectId it denotes (every id is written in its canonical lower-case    *)
(* form).  A text that is hashed is the sequence of the codes of its       *)
(* "-"-joined parts.  A hex digest is a record [head, tail, upper]: head   *)
(* stands for its first ten characters, tail for the whole digest, upper   *)
(* for the letter case of its hex digits.                                  *)
(*                                                                         *)
(* SHA-256 is taken to be collision free on whole digests.  The first ten  *)
(* hex characters take 16^10 values while one buyer and one product        *)
(* already give more seed texts than that (one per clock reading), so      *)
(* distinct seeds share their first ten characters; HeadSpace plays the    *)
(* part of 16^10 and the clock readings of the model stand for readings    *)
(* whose seeds do so.                                                      *)
(*                                                                         *)
(* The server answers one request at a time: a handler runs as one step    *)
(* and leaves its response in `last`; respond hands it to the caller.      *)
(***************************************************************************)
EXTENDS Naturals, Sequences, FiniteSets, TLC

VARIABLES
    clock,      \* the wall clock read by time.time() and datetime.now()
    next_id,    \* how many ObjectIds the store has assigned to products
    product,    \* db["product"], documents in insertion order
    order,      \* db["order"], documents in insertion order
    outbox,     \* number of e-mails send_email has written out
    last,       \* the request being answered and its response
    issued,     \* history: the orders whose checkout call answered 200
    _ip_hits,   \* the throttle's per-IP list of hit times
    verdict     \* the throttle's most recent decision

vars == <<clock, next_id, product, order, outbox, last, issued, _ip_hits, verdict>>

store == <<next_id, product, order, outbox, last, issued>>
front == <<_ip_hits, verdict>>

---------------------------------------------------------------------------
(* Bounds of the model *)

MaxClock == 1        \* clock readings 0..MaxClock in the storefront
MaxProducts == 2     \* ObjectIds the store assigns to products
MaxOrders == 2       \* documents in the order collection
HeadSpace == 2       \* distinct values of a digest's first ten characters
MaxHits == 52        \* length of the busiest IP's hit list
MaxQuiet == 1        \* length of every other IP's hit list
MaxElapsed == 15     \* latest clock reading in the throttle

(* Program constants *)

RATE_LIMIT_WINDOW_SEC == 10
RATE_LIMIT_MAX_REQUESTS == 50

---------------------------------------------------------------------------
(* Inputs *)

Emails == {"a@b.com"}

Malformed == [hex |-> FALSE, n |-> 0]
RawIds == {[hex |-> TRUE, n |-> k] : k \in 1..MaxProducts} \cup {Malformed}

ProductIn ==
    { [title |-> "Ebook",  price |-> 999,  file_url |-> "https://cdn/x.pdf"],
      [title |-> "Course", price |-> 1999, file_url |-> "https://cdn/y.zip"] }

\* print in send_email returns, or raises (stdout closed, text not encodable)
NotifierOutcomes == {"ok", "raises"}

\* request.client.host, "unknown" when the request has no client
IPs == {"10.0.0.1", "unknown"}

---------------------------------------------------------------------------
(* The document store *)

\* what find_one returns when no document matches
None == [_id |-> 0]

RECURSIVE FirstIndex(_, _, _, _)
\* Index of the first document of coll at or after i whose field has the
\* value, else 0.
FirstIndex(coll, field, value, i) ==
    IF i > Len(coll) THEN 0
    ELSE IF coll[i][field] = value THEN i
    ELSE FirstIndex(coll, field, value, i + 1)

\* collection.find_one({field: value}): the first match in the collection's
\* natural order, which is insertion order for collections that only grow.
find_one(coll, field, value) ==
    LET i == FirstIndex(coll, field, value, 1)
    IN  IF i = 0 THEN None ELSE coll[i]

\* str(ObjectId)
str(oid) == [hex |-> TRUE, n |-> oid]

\* db["product"].find_one({"_id": oid})
ProductById(oid) == find_one(product, "_id", oid)

\* A lookup that takes a malformed id for the first product of the store.
LookupProductLenient(product_id) ==
    IF ~product_id.hex
    THEN (IF product = <<>> THEN None ELSE product[1])
    ELSE ProductById(product_id.n)

\* try: prod = find_one({"_id": ObjectId(product_id)})  except: prod = None
\* ObjectId raises InvalidId on a text that is not a well-formed id.
LookupProduct(product_id) ==
    IF ~product_id.hex THEN None ELSE ProductById(product_id.n)

---------------------------------------------------------------------------
(* Hashing *)

EmailCode(e) == IF e = "a@b.com" THEN 1 ELSE 2

RECURSIVE Mix(_, _)
\* a number that depends on every part of the text
Mix(s, i) == IF i > Len(s) THEN 0 ELSE s[i] + Mix(s, i + 1)

\* hashlib.sha256(text.encode()).hexdigest(): the whole digest (tail) is
\* collision free; its first ten characters (head) range over 16^10 values,
\* fewer than there are seed texts, so distinct texts share a head.
sha256_hexdigest(s) ==
    [head |-> (Mix(s, 1) \div 2) % HeadSpace, tail |-> s, upper |-> FALSE]

\* [:10].upper()
Prefix10Upper(d) == [head |-> d.head, upper |-> TRUE]

\* the invoice number's text as a part of a hashed text
InvoiceCode(inv) == inv.head

\* invoice_seed = f"{buyer_email}-{time.time()}-{product_id}"
\* invoice_number = sha256(invoice_seed).hexdigest()[:10].upper()
invoice_of(buyer_email, now, product_id) ==
    Prefix10Upper(sha256_hexdigest(<<EmailCode(buyer_email), now, product_id.n>>))

\* token = sha256(f"{invoice_number}-{buyer_email}").hexdigest()
token_of(invoice_number, buyer_email) ==
    sha256_hexdigest(<<InvoiceCode(invoice_number), EmailCode(buyer_email)>>)

\* f"/download/{token}"
download_url_of(token) == [prefix |-> "/download/", token |-> token]

Invoices == {[head |-> h, upper |-> TRUE] : h \in 0..(HeadSpace - 1)}

\* Tokens a caller can present: every digest of an invoice and an e-mail, in
\* lower case as hexdigest writes it and in upper case.
Tokens ==
    { [head |-> token_of(inv, e).head, tail |-> token_of(inv, e).tail, upper |-> u] :
        inv \in Invoices, e \in Emails, u \in BOOLEAN }

---------------------------------------------------------------------------
(* Handlers *)

NoBody == [kind |-> "none"]
Idle == [op |-> "none"]

Init ==
    /\ clock = 0
    /\ next_id = 0
    /\ product = <<>>
    /\ order = <<>>
    /\ outbox = 0
    /\ last = Idle
    /\ issued = {}
    /\ _ip_hits = [ip \in IPs |-> <<>>]
    /\ verdict = "none"

\* POST /admin/product
create_product(payload) ==
    /\ last = Idle
    /\ next_id < MaxProducts
    /\ next_id' = next_id + 1
    /\ product' = Append(product, [_id |-> next_id + 1, title |-> payload.title,
                                   price |-> payload.price, file_url |-> payload.file_url])
    /\ last' = [op |-> "create_product", status |-> 200, detail |-> "",
                body |-> [kind |-> "id", id |-> str(next_id + 1)]]
    /\ UNCHANGED <<clock, order, outbox, issued, front>>

\* An order document whose amount is read from a key the product lacks.
NewOrderWrongKey(prod, buyer_email, invoice_number, download_url, now) ==
    [ product_id |-> str(prod._id),
      product_title |-> prod.title,
      buyer_email |-> buyer_email,
      amount |-> 0,
      currency |-> "USD",
      invoice_number |-> invoice_number,
      download_url |-> download_url,
      created_at |-> now ]

\* The order document checkout builds from the product it found.
NewOrder(prod, buyer_email, invoice_number, download_url, now) ==
    [ product_id |-> str(prod._id),
      product_title |-> prod.title,
      buyer_email |-> buyer_email,
      amount |-> prod.price,
      currency |-> "USD",
      invoice_number |-> invoice_number,
      download_url |-> download_url,
      created_at |-> now ]

\* POST /checkout
checkout(product_id, buyer_email, notifier) ==
    LET prod == LookupProduct(product_id)
        invoice_number == invoice_of(buyer_email, clock, product_id)
        token == token_of(invoice_number, buyer_email)
        download_url == download_url_of(token)
        oid == Len(order) + 1
        req == [op |-> "checkout", product_id |-> product_id, buyer_email |-> buyer_email]
    IN  /\ last = Idle
        /\ IF prod = None
           THEN /\ last' = req @@ [notifier |-> "unused", status |-> 404,
                                   detail |-> "Product not found", body |-> NoBody]
                /\ UNCHANGED <<order, outbox, issued>>
           ELSE /\ Len(order) < MaxOrders
                /\ order' = Append(order, [_id |-> oid] @@
                       NewOrder(prod, buyer_email, invoice_number, download_url, clock))
                /\ IF notifier = "raises"
                   THEN /\ UNCHANGED <<outbox, issued>>
                        /\ last' = req @@ [notifier |-> notifier, status |-> 500,
                                           detail |-> "Internal Server Error",
                                           body |-> NoBody]
                   ELSE /\ outbox' = outbox + 1
                        /\ issued' = issued \cup
                               {[order |-> oid, token |-> token, product |-> prod._id]}
                        /\ last' = req @@ [notifier |-> notifier, status |-> 200,
                                           detail |-> "",
                                           body |-> [kind |-> "order", id |-> oid,
                                                     invoice_number |-> invoice_number,
                                                     download_url |-> download_url]]
        /\ UNCHANGED <<clock, next_id, product, front>>

\* The outcome of GET /download/{token} in the current state of the store.
download_result(token) ==
    LET ord == find_one(order, "download_url", download_url_of(token))
        prod == ProductById(ord.product_id.n)
    IN  IF ord = None
        THEN [status |-> 404, detail |-> "Invalid token", body |-> NoBody]
        ELSE IF prod = None
        THEN [status |-> 404, detail |-> "Product missing", body |-> NoBody]
        ELSE [status |-> 200, detail |-> "",
              body |-> [kind |-> "file", file_url |-> prod.file_url]]

RECURSIVE Without(_, _)
\* coll without its documents of the given _id
Without(coll, id) ==
    IF coll = <<>> THEN <<>>
    ELSE IF Head(coll)._id = id THEN Without(Tail(coll), id)
    ELSE <<Head(coll)>> \o Without(Tail(coll), id)

\* A download that spends the token: the matched order is removed.
download_once(token) ==
    /\ last = Idle
    /\ last' = [op |-> "download", token |-> token] @@ download_result(token)
    /\ order' = Without(order, find_one(order, "download_url", download_url_of(token))._id)
    /\ UNCHANGED <<clock, next_id, product, outbox, issued, front>>

\* GET /download/{token}
download(token) ==
    /\ last = Idle
    /\ last' = [op |-> "download", token |-> token] @@ download_result(token)
    /\ UNCHANGED <<clock, next_id, product, order, outbox, issued, front>>

\* The response reaches the caller.
respond ==
    /\ last # Idle
    /\ last' = Idle
    /\ UNCHANGED <<clock, next_id, product, order, outbox, issued, front>>

\* The store's owner rewrites a product document in place.
edit_product(id, payload) ==
    /\ last = Idle
    /\ \E i \in DOMAIN product :
          /\ product[i]._id = id
          /\ product' = [product EXCEPT ![i] =
                [_id |-> id, title |-> payload.title, price |-> payload.price,
                 file_url |-> payload.file_url]]
          /\ product' # product
    /\ UNCHANGED <<clock, next_id, order, outbox, last, issued, front>>

\* The store's owner removes a product document.
delete_product(id) ==
    /\ last = Idle
    /\ \E i \in DOMAIN product : product[i]._id = id
    /\ product' = Without(product, id)
    /\ UNCHANGED <<clock, next_id, order, outbox, last, issued, front>>

\* Time passes between two requests.
Tick ==
    /\ last = Idle
    /\ clock < MaxClock
    /\ clock' = clock + 1
    /\ UNCHANGED <<store, front>>

---------------------------------------------------------------------------
(* The throttle *)

\* hits = [t for t in hits if now - t < RATE_LIMIT_WINDOW_SEC]
InWindow(hits, now) ==
    LET Recent(t) == now - t < RATE_LIMIT_WINDOW_SEC
    IN  SelectSeq(hits, Recent)

\* A throttle that already rejects the request that reaches the maximum.
DecideAtMax(hits) == IF Len(hits) >= RATE_LIMIT_MAX_REQUESTS THEN "429" ELSE "call_next"

\* if len(hits) > RATE_LIMIT_MAX_REQUESTS: return 429, else call_next(request)
Decide(hits) == IF Len(hits) > RATE_LIMIT_MAX_REQUESTS THEN "429" ELSE "call_next"

\* @app.middleware("http")
throttle_middleware(ip) ==
    LET now == clock
        hits == Append(InWindow(_ip_hits[ip], now), now)
    IN  /\ Len(hits) <= MaxHits
        /\ Len(hits) > MaxQuiet => \A other \in IPs \ {ip} : Len(_ip_hits[other]) <= MaxQuiet
        /\ _ip_hits' = [_ip_hits EXCEPT ![ip] = hits]
        /\ verdict' = Decide(hits)
        /\ UNCHANGED <<clock, store>>

\* Half a window of time passes between two requests.
Elapse ==
    /\ clock + (RATE_LIMIT_WINDOW_SEC \div 2) <= MaxElapsed
    /\ clock' = clock + (RATE_LIMIT_WINDOW_SEC \div 2)
    /\ UNCHANGED <<store, front>>

---------------------------------------------------------------------------
(* Specifications *)

\* The storefront, send_email succeeding or raising.
Next ==
    \/ \E payload \in ProductIn : create_product(payload)
    \/ \E p \in RawIds, e \in Emails, n \in NotifierOutcomes : checkout(p, e, n)
    \/ \E token \in Tokens : download(token)
    \/ respond
    \/ \E i \in 1..MaxProducts, payload \in ProductIn : edit_product(i, payload)
    \/ \E i \in 1..MaxProducts : delete_product(i)
    \/ Tick

Spec == Init /\ [][Next]_vars

\* The storefront with a console that can always be written to.
NextReliable ==
    \/ \E payload \in ProductIn : create_product(payload)
    \/ \E p \in RawIds, e \in Emails : checkout(p, e, "ok")
    \/ \E token \in Tokens : download(token)
    \/ respond
    \/ \E i \in 1..MaxProducts, payload \in ProductIn : edit_product(i, payload)
    \/ \E i \in 1..MaxProducts : delete_product(i)
    \/ Tick

SpecReliable == Init /\ [][NextReliable]_vars

\* The throttle alone.
NextFront ==
    \/ \E ip \in IPs : throttle_middleware(ip)
    \/ Elapse

SpecFront == Init /\ [][NextFront]_vars

---------------------------------------------------------------------------
(* Claims *)

\* The order at index i was inserted by a checkout call that answered 200.
Successful(i) == \E x \in issued : x.order = order[i]._id

\* C1: every checkout of an existing product with a non-empty e-mail answers
\* 200, and a download of a token some checkout returned, while the product
\* bought in that checkout is in the store, answers that product's file_url.
C1_CheckoutThenDownload ==
    /\ (last.op = "checkout" /\ last.buyer_email # "" /\ LookupProduct(last.product_id) # None)
          => last.status = 200
    /\ last.op = "download" =>
          \A x \in issued :
             (x.token = last.token /\ ProductById(x.product) # None)
                => /\ last.status = 200
                   /\ last.body.file_url = ProductById(x.product).file_url

\* C2: a checkout of a malformed product id or of an id no product has answers
\* 404 "Product not found" in both cases, inserts no order and sends no e-mail.
C2_NotFoundLeavesNoTrace ==
    [][\A p \in RawIds, e \in Emails, n \in NotifierOutcomes :
          (checkout(p, e, n) /\ (~p.hex \/ \A i \in DOMAIN product : product[i]._id # p.n))
             => /\ last'.status = 404
                /\ last'.detail = "Product not found"
                /\ last'.body = NoBody
                /\ order' = order
                /\ outbox' = outbox]_vars

C2_Witness ==
    /\ last.op = "checkout"
    /\ last.status = 404
    /\ last.product_id.hex
    /\ \E i \in DOMAIN order : order[i].product_id = last.product_id

\* C3: a checkout whose notifier raises after the order was inserted still
\* answers 200 with the order's id, invoice number and download url.
C3_NotifierFailureAbsorbed ==
    (last.op = "checkout" /\ last.notifier = "raises")
       => /\ last.status = 200
          /\ last.body.kind = "order"
          /\ last.body.id = order[Len(order)]._id

\* C4: a download of a token that no checkout answering 200 has returned
\* answers 404 "Invalid token".
C4_UnissuedTokenRejected ==
    (last.op = "download" /\ \A x \in issued : x.token # last.token)
       => /\ last.status = 404
          /\ last.detail = "Invalid token"

\* C5: two successful checkouts of the same product id and buyer e-mail at
\* different clock readings have different invoice numbers and different tokens.
C5_TimeSaltedDistinct ==
    \A i, j \in DOMAIN order :
       (/\ i < j
        /\ Successful(i) /\ Successful(j)
        /\ order[i].product_id = order[j].product_id
        /\ order[i].buyer_email = order[j].buyer_email
        /\ order[i].created_at # order[j].created_at)
          => /\ order[i].invoice_number # order[j].invoice_number
             /\ order[i].download_url # order[j].download_url

\* C6: a download changes neither collection, and as long as no product
\* changes, a token that resolves keeps resolving to the same file_url
\* whatever is done to the order collection.
C6_DownloadReadOnly ==
    [][/\ \A t \in Tokens : download(t) => (product' = product /\ order' = order)
       /\ (product' = product /\ order' # order) =>
             \A t \in Tokens :
                download_result(t).status = 200 => download_result(t)' = download_result(t)]_vars

C6_Witness ==
    /\ last.op = "download"
    /\ last.status = 200
    /\ Len(order) = MaxOrders

\* C7: a download of the token of a successfully placed order whose product
\* is no longer in the store answers 404 "Product missing".
C7_VanishedProductReported ==
    (last.op = "download"
       /\ \E i \in DOMAIN order :
             /\ Successful(i)
             /\ order[i].download_url = download_url_of(last.token)
             /\ ProductById(order[i].product_id.n) = None)
       => /\ last.status = 404
          /\ last.detail = "Product missing"

\* C8: no step changes or removes an order already in the store, a step adds
\* at most one order, and a new order carries the price and title its product
\* has at that moment and the currency "USD".
C8_OrdersAppendOnly ==
    [][/\ Len(order') >= Len(order)
       /\ Len(order') <= Len(order) + 1
       /\ \A i \in DOMAIN order : order'[i] = order[i]
       /\ Len(order') = Len(order) + 1 =>
             LET o == order'[Len(order')]
                 p == ProductById(o.product_id.n)
             IN  /\ p # None
                 /\ o.amount = p.price
                 /\ o.product_title = p.title
                 /\ o.currency = "USD"]_vars

C8_Witness ==
    \E i \in DOMAIN order :
       /\ ProductById(order[i].product_id.n) # None
       /\ ProductById(order[i].product_id.n).price # order[i].amount
       /\ order[i].amount > 0

\* C9: no two orders in the store share a download_url.
C9_OneTokenPerOrder ==
    \A i, j \in DOMAIN order :
       i # j => order[i].download_url # order[j].download_url

\* C10: a request is answered 429 exactly when its IP's recorded hits of the
\* last 10 seconds, the request included, number more than 50; the request is
\* recorded either way, and no other IP's hits change.
C10_ThrottlePerIp ==
    [][\A ip \in IPs :
          throttle_middleware(ip) =>
             LET recent == {k \in DOMAIN _ip_hits[ip] :
                               clock - _ip_hits[ip][k] < RATE_LIMIT_WINDOW_SEC}
                 n == Cardinality(recent) + 1
             IN  /\ verdict' = "429" <=> n > RATE_LIMIT_MAX_REQUESTS
                 /\ verdict' \in {"429", "call_next"}
                 /\ Len(_ip_hits'[ip]) = n
                 /\ _ip_hits'[ip][n] = clock
                 /\ \A other \in IPs \ {ip} : _ip_hits'[other] = _ip_hits[other]]_vars

C10_Witness ==
    /\ verdict = "429"
    /\ clock >= RATE_LIMIT_WINDOW_SEC
    /\ \E ip \in IPs : Len(_ip_hits[ip]) > RATE_LIMIT_MAX_REQUESTS
    /\ \E ip \in IPs : Len(_ip_hits[ip]) = 1

=============================================================================
